---------------------------- MODULE Spec2Model ----------------------------
(***************************************************************************)
(* Multiplexed file transfer over one connection (server.py, client.py).   *)
(*                                                                         *)
(* QuicServer.send_file runs once per stream in its own thread and writes  *)
(* framed packages to one TCP connection under QuicServer.lock.            *)
(* QuicClient.recv_file runs in number_of_files threads; each takes        *)
(* QuicClient.lock, reads one header and one package with socket.recv,     *)
(* releases the lock and then polls curret_package[id_stream] until it is  *)
(* the package's turn to be appended to file_buffers[id_stream].           *)
(*                                                                         *)
(* The connection is a byte stream: sent is every byte written so far and  *)
(* rd the number of bytes the client has consumed.  socket.recv(n) returns *)
(* between 1 and n of the bytes that have arrived (b'' at end of           *)
(* connection); socket.send on the blocking socket queues its whole        *)
(* argument.  Thread switches can happen between any two bytecodes, so the *)
(* compare, the load, the store and the extend of the commit are separate  *)
(* steps.                                                                  *)
(***************************************************************************)
EXTENDS Integers, Sequences, FiniteSets, TLC

\* ------------------------------------------------------------------ bounds
MaxStreams == 2
MaxFileLen == 3
MaxPackageSize == 2
MaxShortReads == 1
MaxPackages == 2
MaxStats == 2
MaxStatValue == 1
MaxElapsed == 2

MaxCount == 20

\* --------------------------------------------------------- program constants
HEADER_SIZE == 12
RECV_SIZE == 1024

VARIABLES
    number_of_files,  \* QuicServer.number_of_files / QuicClient.number_of_files
    file_data,        \* send_file: file_data, per stream
    package_size,     \* send_file: package_size, per stream
    spc,              \* position of each send_file thread
    i,                \* send_file: loop variable i, per stream
    sum_bytes,        \* send_file: sum_bytes, per stream
    server_lock,      \* QuicServer.lock: its holder, or Free
    sent,             \* every byte written to the connection, in order
    rd,               \* number of bytes of sent the client has received
    closed,           \* the server process has ended and closed the connection
    result,           \* queue.Queue of transfer statistics
    statistic,        \* statistics collected by the server's main thread
    client_lock,      \* QuicClient.lock: its holder, or Free
    rpc,              \* position of each recv_file thread
    header,           \* recv_file: header, per worker
    package,          \* recv_file: package, per worker
    loaded,           \* recv_file: value read by curret_package[id_stream] += 1
    file_buffers,     \* file_buffers[id_stream]
    curret_package,   \* curret_package[id_stream]
    incremented,      \* per stream, the id_package of every counter store so far
    extended,         \* per stream, the id_package of every extend so far
    shorts,           \* number of recv calls that returned less than was there
    close_pc,         \* position of QuicServer.close: "idle", "loop" or "done"
    close_at,         \* close: number of entries of statistic iterated so far
    close_sum_bytes,  \* close: sum_bytes
    close_sum_packages,   \* close: sum_packages
    total_time,           \* close: total_time
    avg_bytes_per_sec,    \* close: avg_bytes_per_sec, as <<numerator, denominator>>
    avg_packages_per_sec, \* close: avg_packages_per_sec, likewise
    server_pc,        \* position of the thread that runs set_up_server
    client_pc,        \* position of the thread that runs set_up_client
    client_number_of_files,   \* QuicClient.number_of_files
    echo,             \* the bytes ready_to_recv has sent to the server
    number,           \* set_up_server: int(number.decode()), NoNumber before
    problem,          \* set_up_server has printed "Problem here..."
    broken,           \* the peer has closed the connection: a send can raise
    terminal_sent     \* the streams whose frame (id_stream, 0, 0) was sent

vars == <<number_of_files, file_data, package_size, spc, i, sum_bytes,
          server_lock, sent, rd, closed, result, statistic, client_lock, rpc,
          header, package, loaded, file_buffers, curret_package,
          incremented, extended, shorts, close_pc, close_at, close_sum_bytes,
          close_sum_packages, total_time, avg_bytes_per_sec,
          avg_packages_per_sec, server_pc, client_pc, client_number_of_files,
          echo, number, problem, broken, terminal_sent>>

sender_vars == <<spc, i, sum_bytes, server_lock, result, statistic,
                 server_pc, terminal_sent>>
config_vars == <<number_of_files, file_data, package_size>>
session_vars == <<client_pc, client_number_of_files, echo, number, problem,
                  broken>>
close_vars == <<close_pc, close_at, close_sum_bytes, close_sum_packages,
                total_time, avg_bytes_per_sec, avg_packages_per_sec>>
receiver_vars == <<client_lock, rpc, header, package, loaded, file_buffers,
                   curret_package, incremented, extended, shorts>>

Free == -1
NoNumber == -1

Streams == 0 .. number_of_files - 1
\* Mutant: at least one recv_file thread is started.
WorkersAtLeastOne == 1 .. (IF number_of_files = 0 THEN 1 ELSE number_of_files)

Workers == 1 .. number_of_files

Min(a, b) == IF a < b THEN a ELSE b

\* ------------------------------------------------------------- frame codec
\* struct.pack('!i', v): four bytes, big-endian, two's complement.
PackInt(v) ==
    LET hi == IF v < 0 THEN 256 + ((v - (v % 16777216)) \div 16777216)
                       ELSE v \div 16777216
        lo == v % 16777216
    IN  <<hi, lo \div 65536, (lo \div 256) % 256, lo % 256>>

\* struct.unpack('!i', b): the signed value of four big-endian bytes.
UnpackInt(b) ==
    (IF b[1] >= 128 THEN b[1] - 256 ELSE b[1]) * 16777216
        + b[2] * 65536 + b[3] * 256 + b[4]

\* struct.pack("!iii", id_stream, length, id_package)
Pack(stream, length, pkg) == PackInt(stream) \o PackInt(length) \o PackInt(pkg)

\* struct.unpack('!iii', header), defined for 12 bytes
Unpack(h) == <<UnpackInt(SubSeq(h, 1, 4)), UnpackInt(SubSeq(h, 5, 8)),
               UnpackInt(SubSeq(h, 9, 12))>>

\* f"{n}".encode() and str(n).encode() for n >= 0: the ASCII decimal digits.
RECURSIVE StrEncode(_)
StrEncode(n) ==
    IF n < 10 THEN <<48 + n>> ELSE StrEncode(n \div 10) \o <<48 + (n % 10)>>

\* int(b.decode()) for a non-empty string of ASCII decimal digits.
RECURSIVE IntDecode(_)
IntDecode(b) ==
    IF Len(b) = 1 THEN b[1] - 48
    ELSE 10 * IntDecode(SubSeq(b, 1, Len(b) - 1)) + (b[Len(b)] - 48)

\* ------------------------------------------------------------------ sender
\* Mutant: the division rounds down.
num_packages_floor(s) == Len(file_data[s]) \div package_size[s]

\* Mutant: the division rounds down and one package is added.
num_packages_extra(s) == Len(file_data[s]) \div package_size[s] + 1

\* num_packages = (total_length + package_size - 1) // package_size
num_packages(s) ==
    (Len(file_data[s]) + package_size[s] - 1) \div package_size[s]

\* file_data[i * package_size: (i + 1) * package_size]
Slice(data, size, k) ==
    SubSeq(data, k * size + 1, Min((k + 1) * size, Len(data)))

\* Mutant: the loop stops one package early.
LoopDoneOneEarly(s) == i[s] >= num_packages(s) - 1

\* "for i in range(num_packages)" has run out
LoopDone(s) == i[s] >= num_packages(s)

\* Mutant: the lock is not held between the header and the package.
NotHeld(s) == Free

\* "with self.lock:" around both sends of a package: the holder after the
\* header is written
HeldBy(s) == s

\* Mutant: every header carries sequence number 0.
SequenceZero(s) == 0

\* struct.pack("!iii", id_stream, len(package), i): the third field is the
\* loop variable
Sequence(s) == i[s]

\* with self.lock: self.connection.send(header)
SendHeader(s) ==
    /\ spc[s] = "loop"
    /\ ~LoopDone(s)
    /\ server_lock = Free
    /\ server_lock' = HeldBy(s)
    /\ sent' = sent \o Pack(s, Len(Slice(file_data[s], package_size[s], i[s])),
                           Sequence(s))
    /\ spc' = [spc EXCEPT ![s] = "send_package"]
    /\ UNCHANGED <<i, sum_bytes, result, statistic, rd, closed, server_pc,
                   terminal_sent>>
    /\ UNCHANGED <<config_vars, session_vars, close_vars, receiver_vars>>

\* self.connection.send(package); the lock is released; sum_bytes += len(package)
SendPackage(s) ==
    /\ spc[s] = "send_package"
    /\ sent' = sent \o Slice(file_data[s], package_size[s], i[s])
    /\ server_lock' = Free
    /\ sum_bytes' = [sum_bytes EXCEPT
                       ![s] = @ + Len(Slice(file_data[s], package_size[s], i[s]))]
    /\ i' = [i EXCEPT ![s] = @ + 1]
    /\ spc' = [spc EXCEPT ![s] = "loop"]
    /\ UNCHANGED <<result, statistic, rd, closed, server_pc, terminal_sent>>
    /\ UNCHANGED <<config_vars, session_vars, close_vars, receiver_vars>>

\* with self.lock: self.connection.send(struct.pack("!iii", id_stream, 0, 0))
SendEof(s) ==
    /\ spc[s] = "loop"
    /\ LoopDone(s)
    /\ server_lock = Free
    /\ sent' = sent \o Pack(s, 0, 0)
    /\ terminal_sent' = terminal_sent \cup {s}
    /\ spc' = [spc EXCEPT ![s] = "put"]
    /\ UNCHANGED <<i, sum_bytes, server_lock, result, statistic, rd, closed,
                   server_pc>>
    /\ UNCHANGED <<config_vars, session_vars, close_vars, receiver_vars>>

\* Mutant: send_file returns without publishing.
PutNothing(s) ==
    /\ spc[s] = "put"
    /\ spc' = [spc EXCEPT ![s] = "done"]
    /\ UNCHANGED <<i, sum_bytes, server_lock, result, statistic, sent, rd,
                   closed, server_pc, terminal_sent>>
    /\ UNCHANGED <<config_vars, session_vars, close_vars, receiver_vars>>

\* result.put((file_path, sum_bytes, num_packages, ...))
PutResult(s) ==
    /\ spc[s] = "put"
    /\ result' = Append(result, [file_path |-> s, sum_bytes |-> sum_bytes[s],
                                 num_packages |-> num_packages(s)])
    /\ spc' = [spc EXCEPT ![s] = "done"]
    /\ UNCHANGED <<i, sum_bytes, server_lock, statistic, sent, rd, closed,
                   server_pc, terminal_sent>>
    /\ UNCHANGED <<config_vars, session_vars, close_vars, receiver_vars>>

\* Mutant: the lock stays with the thread that the exception ended.
LockKeptAfterRaise(s) == s

\* send_file has no try: an exception raised by connection.send leaves the
\* "with self.lock" block, which releases the lock, and ends the thread; the
\* interpreter prints the traceback.
LockAfterRaise(s) == Free

\* with self.lock: self.connection.send(header) raises
SendHeaderFails(s) ==
    /\ spc[s] = "loop"
    /\ ~LoopDone(s)
    /\ server_lock = Free
    /\ broken
    /\ spc' = [spc EXCEPT ![s] = "failed"]
    /\ UNCHANGED <<i, sum_bytes, server_lock, result, statistic, sent, rd,
                   closed, server_pc, terminal_sent>>
    /\ UNCHANGED <<config_vars, session_vars, close_vars, receiver_vars>>

\* self.connection.send(package) raises after the header was sent
SendPackageFails(s) ==
    /\ spc[s] = "send_package"
    /\ broken
    /\ server_lock' = LockAfterRaise(s)
    /\ spc' = [spc EXCEPT ![s] = "failed"]
    /\ UNCHANGED <<i, sum_bytes, result, statistic, sent, rd, closed,
                   server_pc, terminal_sent>>
    /\ UNCHANGED <<config_vars, session_vars, close_vars, receiver_vars>>

\* with self.lock: self.connection.send(struct.pack("!iii", id_stream, 0, 0))
\* raises
SendEofFails(s) ==
    /\ spc[s] = "loop"
    /\ LoopDone(s)
    /\ server_lock = Free
    /\ broken
    /\ spc' = [spc EXCEPT ![s] = "failed"]
    /\ UNCHANGED <<i, sum_bytes, server_lock, result, statistic, sent, rd,
                   closed, server_pc, terminal_sent>>
    /\ UNCHANGED <<config_vars, session_vars, close_vars, receiver_vars>>

\* The peer closes or resets the connection.
ConnectionBreaks ==
    /\ ~broken
    /\ broken' = TRUE
    /\ UNCHANGED <<client_pc, client_number_of_files, echo, number, problem>>
    /\ UNCHANGED <<config_vars, close_vars, sender_vars, receiver_vars, sent,
                   rd, closed>>

\* server.py main: the joins return (a thread that ended by an exception is
\* joined like any other), the queue is drained into statistic, the process
\* ends and its end of the connection is closed.
ServerMainExit ==
    /\ server_pc = "join"
    /\ \A s \in Streams : spc[s] \in {"done", "failed"}
    /\ ~closed
    /\ statistic' = result
    /\ result' = <<>>
    /\ closed' = TRUE
    /\ server_pc' = "done"
    /\ UNCHANGED <<spc, i, sum_bytes, server_lock, sent, rd, terminal_sent>>
    /\ UNCHANGED <<config_vars, session_vars, close_vars, receiver_vars>>

\* ---------------------------------------------------------------- receiver
Avail == Len(sent) - rd

\* The byte counts socket.recv(n) can return when data has arrived.
RecvSizes(n) ==
    {Min(n, Avail)} \cup
        (IF shorts < MaxShortReads THEN 1 .. (Min(n, Avail) - 1) ELSE {})

\* Mutant: a worker serves the stream of its own place in the pool.
WorkerStream(w) == w - 1

id_stream(w) == Unpack(header[w])[1]
data_length(w) == Unpack(header[w])[2]
id_package(w) == Unpack(header[w])[3]

\* with self.lock: header = self.client_socket.recv(12), data has arrived
RecvHeader(w) ==
    /\ rpc[w] = "recv_header"
    /\ client_lock = Free
    /\ Avail > 0
    /\ \E k \in RecvSizes(HEADER_SIZE) :
         LET h == SubSeq(sent, rd + 1, rd + k) IN
         /\ header' = [header EXCEPT ![w] = h]
         /\ rd' = rd + k
         /\ shorts' = IF k < Min(HEADER_SIZE, Avail) THEN shorts + 1 ELSE shorts
         /\ IF k = HEADER_SIZE /\ Unpack(h)[2] # 0
            THEN /\ rpc' = [rpc EXCEPT ![w] = "recv_package"]
                 /\ client_lock' = w
            ELSE \* struct.error on a short header, or data_length == 0: break
                 /\ rpc' = [rpc EXCEPT ![w] = "done"]
                 /\ client_lock' = Free
    /\ UNCHANGED <<package, loaded, file_buffers, curret_package,
                   incremented, extended>>
    /\ UNCHANGED <<config_vars, session_vars, close_vars, sender_vars, sent, closed>>

\* header = recv(12) at end of connection: b'', "if not header: break"
RecvHeaderEof(w) ==
    /\ rpc[w] = "recv_header"
    /\ client_lock = Free
    /\ Avail = 0
    /\ closed
    /\ header' = [header EXCEPT ![w] = <<>>]
    /\ rpc' = [rpc EXCEPT ![w] = "done"]
    /\ UNCHANGED <<client_lock, package, loaded, file_buffers, curret_package,
                   incremented, extended, shorts, rd>>
    /\ UNCHANGED <<config_vars, session_vars, close_vars, sender_vars, sent, closed>>

\* "if id_stream in file_buffers": the worker polls, else it reads again
AfterPackage(w) ==
    IF id_stream(w) \in Streams THEN "wait" ELSE "recv_header"

\* Mutant: the worker polls for its turn inside the "with self.lock" block.
LockKeptWhilePolling(w) == w

\* The "with self.lock" block ends before "if id_stream in file_buffers"
LockAfterRead(w) == Free

\* package = self.client_socket.recv(data_length): some of the bytes that have
\* arrived, or b'' (and no exception) at end of connection
RecvPackage(w) ==
    /\ rpc[w] = "recv_package"
    /\ client_lock = w
    /\ data_length(w) > 0
    /\ IF Avail > 0
       THEN \E k \in RecvSizes(data_length(w)) :
              /\ package' = [package EXCEPT ![w] = SubSeq(sent, rd + 1, rd + k)]
              /\ rd' = rd + k
              /\ shorts' = IF k < Min(data_length(w), Avail)
                           THEN shorts + 1 ELSE shorts
       ELSE /\ closed
            /\ package' = [package EXCEPT ![w] = <<>>]
            /\ UNCHANGED <<rd, shorts>>
    /\ client_lock' = LockAfterRead(w)
    /\ rpc' = [rpc EXCEPT ![w] = AfterPackage(w)]
    /\ UNCHANGED <<header, loaded, file_buffers, curret_package,
                   incremented, extended>>
    /\ UNCHANGED <<config_vars, session_vars, close_vars, sender_vars, sent, closed>>

\* recv(data_length) with a negative length raises ValueError: except, break
RecvPackageError(w) ==
    /\ rpc[w] = "recv_package"
    /\ client_lock = w
    /\ data_length(w) < 0
    /\ client_lock' = Free
    /\ rpc' = [rpc EXCEPT ![w] = "done"]
    /\ UNCHANGED <<header, package, loaded, file_buffers, curret_package,
                   incremented, extended, shorts, rd>>
    /\ UNCHANGED <<config_vars, session_vars, close_vars, sender_vars, sent, closed>>

\* "if curret_package[id_stream] == id_package" found true; while it is false
\* the worker polls again and changes nothing.
CheckTurn(w) ==
    /\ rpc[w] = "wait"
    /\ curret_package[id_stream(w)] = id_package(w)
    /\ rpc' = [rpc EXCEPT ![w] = "increment"]
    /\ UNCHANGED <<client_lock, header, package, loaded, file_buffers,
                   curret_package, incremented, extended, shorts, rd>>
    /\ UNCHANGED <<config_vars, session_vars, close_vars, sender_vars, sent, closed>>

\* curret_package[id_stream] += 1, the read
LoadCounter(w) ==
    /\ rpc[w] = "increment"
    /\ loaded' = [loaded EXCEPT ![w] = curret_package[id_stream(w)]]
    /\ rpc' = [rpc EXCEPT ![w] = "store"]
    /\ UNCHANGED <<client_lock, header, package, file_buffers,
                   curret_package, incremented, extended, shorts, rd>>
    /\ UNCHANGED <<config_vars, session_vars, close_vars, sender_vars, sent, closed>>

\* curret_package[id_stream] += 1, the write
StoreCounter(w) ==
    /\ rpc[w] = "store"
    /\ curret_package' = [curret_package EXCEPT ![id_stream(w)] = loaded[w] + 1]
    /\ incremented' = [incremented EXCEPT
                         ![id_stream(w)] = Append(@, id_package(w))]
    /\ rpc' = [rpc EXCEPT ![w] = "extend"]
    /\ UNCHANGED <<client_lock, header, package, loaded, file_buffers,
                   extended, shorts, rd>>
    /\ UNCHANGED <<config_vars, session_vars, close_vars, sender_vars, sent, closed>>

\* file_buffers[id_stream].extend(package); the worker loops.  header, package
\* and the loaded value are dead from here on and are cleared.
Extend(w) ==
    /\ rpc[w] = "extend"
    /\ file_buffers' = [file_buffers EXCEPT ![id_stream(w)] = @ \o package[w]]
    /\ extended' = [extended EXCEPT ![id_stream(w)] = Append(@, id_package(w))]
    /\ rpc' = [rpc EXCEPT ![w] = "recv_header"]
    /\ header' = [header EXCEPT ![w] = <<>>]
    /\ package' = [package EXCEPT ![w] = <<>>]
    /\ loaded' = [loaded EXCEPT ![w] = 0]
    /\ UNCHANGED <<client_lock, curret_package, incremented, shorts, rd>>
    /\ UNCHANGED <<config_vars, session_vars, close_vars, sender_vars, sent, closed>>

\* --------------------------------------------------------------- handshake
\* set_up_server: self.connection.send(f"{self.number_of_files}".encode())
SendCount ==
    /\ server_pc = "send_count"
    /\ sent' = sent \o StrEncode(number_of_files)
    /\ server_pc' = "recv_echo"
    /\ UNCHANGED <<spc, i, sum_bytes, server_lock, result, statistic, rd,
                   closed, terminal_sent>>
    /\ UNCHANGED <<config_vars, session_vars, close_vars, receiver_vars>>

\* set_up_client: self.number_of_files = int(recv(1024).decode())
RecvCount ==
    /\ client_pc = "recv_count"
    /\ Avail > 0
    /\ \E k \in RecvSizes(RECV_SIZE) :
         /\ client_number_of_files' = IntDecode(SubSeq(sent, rd + 1, rd + k))
         /\ rd' = rd + k
         /\ shorts' = IF k < Min(RECV_SIZE, Avail) THEN shorts + 1 ELSE shorts
    /\ client_pc' = "ready_to_recv"
    /\ UNCHANGED <<client_lock, rpc, header, package, loaded, file_buffers,
                   curret_package, incremented, extended>>
    /\ UNCHANGED <<echo, number, problem, broken>>
    /\ UNCHANGED <<config_vars, close_vars, sender_vars, sent, closed>>

\* ready_to_recv: self.client_socket.send(str(self.number_of_files).encode())
ReadyToRecv ==
    /\ client_pc = "ready_to_recv"
    /\ echo' = echo \o StrEncode(client_number_of_files)
    /\ client_pc' = "start"
    /\ UNCHANGED <<client_number_of_files, number, problem, broken>>
    /\ UNCHANGED <<config_vars, close_vars, sender_vars, receiver_vars, sent,
                   rd, closed>>

\* set_up_server: number = self.connection.recv(1024);
\* if int(number.decode()) != self.number_of_files: print("Problem here...")
RecvEcho ==
    /\ server_pc = "recv_echo"
    /\ echo # <<>>
    /\ \E k \in {Len(echo)} \cup
                (IF shorts < MaxShortReads THEN 1 .. (Len(echo) - 1) ELSE {}) :
         /\ number' = IntDecode(SubSeq(echo, 1, k))
         /\ problem' = (IntDecode(SubSeq(echo, 1, k)) # number_of_files)
         /\ shorts' = IF k < Len(echo) THEN shorts + 1 ELSE shorts
    /\ server_pc' = "start"
    /\ UNCHANGED <<spc, i, sum_bytes, server_lock, result, statistic, sent, rd,
                   closed, terminal_sent>>
    /\ UNCHANGED <<client_lock, rpc, header, package, loaded, file_buffers,
                   curret_package, incremented, extended>>
    /\ UNCHANGED <<client_pc, client_number_of_files, echo, broken>>
    /\ UNCHANGED <<config_vars, close_vars>>

\* server.py main: set_up_server() has returned
SetUpServerReturned == server_pc = "start"

\* server.py main: a send_file thread is created and started for each file
StartSenders ==
    /\ SetUpServerReturned
    /\ spc' = [s \in Streams |-> "loop"]
    /\ server_pc' = "join"
    /\ UNCHANGED <<i, sum_bytes, server_lock, result, statistic, sent, rd,
                   closed, terminal_sent>>
    /\ UNCHANGED <<config_vars, session_vars, close_vars, receiver_vars>>

\* file_buffers = {i: bytearray() for i in range(number_of_files)} and
\* curret_package = [0] * number_of_files
NewBuffers ==
    /\ file_buffers' = [s \in 0 .. client_number_of_files - 1 |-> <<>>]
    /\ curret_package' = [s \in 0 .. client_number_of_files - 1 |-> 0]
    /\ incremented' = [s \in 0 .. client_number_of_files - 1 |-> <<>>]
    /\ extended' = [s \in 0 .. client_number_of_files - 1 |-> <<>>]

\* client.py main: the buffers are made and a recv_file thread is started
\* number_of_files times (the echo was sent just before)
StartWorkers ==
    /\ client_pc = "start"
    /\ NewBuffers
    /\ rpc' = [w \in Workers |->
                 IF w <= client_number_of_files THEN "recv_header" ELSE "idle"]
    /\ client_pc' = "join"
    /\ UNCHANGED <<client_lock, header, package, loaded, shorts>>
    /\ UNCHANGED <<client_number_of_files, echo, number, problem, broken>>
    /\ UNCHANGED <<config_vars, close_vars, sender_vars, sent, rd, closed>>

\* client.py main: the joins return, the files are written and the socket is
\* closed.
ClientMainExit ==
    /\ client_pc = "join"
    /\ \A w \in Workers : rpc[w] \in {"done", "idle"}
    /\ client_pc' = "done"
    /\ broken' = TRUE
    /\ UNCHANGED <<client_number_of_files, echo, number, problem>>
    /\ UNCHANGED <<config_vars, close_vars, sender_vars, receiver_vars, sent,
                   rd, closed>>

\* test.py: after client.ready_to_recv() the test's main thread makes the
\* buffers and starts a recv_file and a send_file thread per flow, while
\* set_up_server runs in a thread of its own that is not joined.
TestStartThreads ==
    /\ client_pc = "start"
    /\ NewBuffers
    /\ rpc' = [w \in Workers |-> "recv_header"]
    /\ spc' = [s \in Streams |-> "loop"]
    /\ client_pc' = "join"
    /\ UNCHANGED <<i, sum_bytes, server_lock, result, statistic, server_pc,
                   terminal_sent>>
    /\ UNCHANGED <<client_lock, header, package, loaded, shorts>>
    /\ UNCHANGED <<client_number_of_files, echo, number, problem, broken>>
    /\ UNCHANGED <<config_vars, close_vars, sent, rd, closed>>

\* ------------------------------------------------------------------- close
\* QuicServer.close only reads statistic, prints, and closes the listening
\* socket; it does not touch the connection.  Durations are whole clock units
\* and a rate is kept as the exact fraction <<numerator, denominator>>.
Rate(n, d) == <<n, d>>

ZeroRate == Rate(0, 1)

\* Mutant: the last elapsed time wins.
LastTime(t, elapsed) == elapsed

\* "if file_stat[5] > total_time: total_time = file_stat[5]"
NewTotalTime(t, elapsed) == IF elapsed > t THEN elapsed ELSE t

\* one iteration of "for file_stat in statistic"
CloseLoop ==
    /\ close_pc = "loop"
    /\ close_at < Len(statistic)
    /\ LET file_stat == statistic[close_at + 1] IN
         /\ close_sum_bytes' = close_sum_bytes + file_stat.sum_bytes
         /\ close_sum_packages' = close_sum_packages + file_stat.num_packages
         /\ total_time' = NewTotalTime(total_time, file_stat.total_time_in_sec)
    /\ close_at' = close_at + 1
    /\ UNCHANGED <<close_pc, avg_bytes_per_sec, avg_packages_per_sec>>
    /\ UNCHANGED <<config_vars, session_vars, sender_vars, receiver_vars, sent,
                   rd, closed>>

\* "if total_time > 0: ... else: avg_bytes_per_sec = avg_packages_per_sec = 0"
CloseRates ==
    /\ close_pc = "loop"
    /\ close_at = Len(statistic)
    /\ IF total_time > 0
       THEN /\ avg_bytes_per_sec' = Rate(close_sum_bytes, total_time)
            /\ avg_packages_per_sec' = Rate(close_sum_packages, total_time)
       ELSE /\ avg_bytes_per_sec' = ZeroRate
            /\ avg_packages_per_sec' = ZeroRate
    /\ close_pc' = "done"
    /\ UNCHANGED <<close_at, close_sum_bytes, close_sum_packages, total_time>>
    /\ UNCHANGED <<config_vars, session_vars, sender_vars, receiver_vars, sent,
                   rd, closed>>

\* ------------------------------------------------------------ specification
FileByte(s, j) == 255 - 16 * s - j

File(s, n) == [j \in 1 .. n |-> FileByte(s, j)]

\* The state in which the transfer threads are started: nothing sent, nothing
\* received, file_buffers = {i: bytearray()}, curret_package = [0] * n.
Start ==
    /\ spc = [s \in Streams |-> "loop"]
    /\ i = [s \in Streams |-> 0]
    /\ sum_bytes = [s \in Streams |-> 0]
    /\ server_lock = Free
    /\ sent = <<>>
    /\ rd = 0
    /\ closed = FALSE
    /\ result = <<>>
    /\ statistic = <<>>
    /\ client_lock = Free
    /\ rpc = [w \in Workers |-> "recv_header"]
    /\ header = [w \in Workers |-> <<>>]
    /\ package = [w \in Workers |-> <<>>]
    /\ loaded = [w \in Workers |-> 0]
    /\ file_buffers = [s \in Streams |-> <<>>]
    /\ curret_package = [s \in Streams |-> 0]
    /\ incremented = [s \in Streams |-> <<>>]
    /\ extended = [s \in Streams |-> <<>>]
    /\ shorts = 0
    /\ close_pc = "idle"
    /\ close_at = 0
    /\ close_sum_bytes = 0
    /\ close_sum_packages = 0
    /\ total_time = 0
    /\ avg_bytes_per_sec = ZeroRate
    /\ avg_packages_per_sec = ZeroRate
    /\ server_pc = "join"
    /\ client_pc = "join"
    /\ client_number_of_files = number_of_files
    /\ echo = StrEncode(number_of_files)
    /\ number = number_of_files
    /\ problem = FALSE
    /\ broken = FALSE
    /\ terminal_sent = {}

\* The state in which the connection is accepted: no thread is started, no
\* buffer is made and nothing is sent.
Connected ==
    /\ spc = [s \in Streams |-> "idle"]
    /\ i = [s \in Streams |-> 0]
    /\ sum_bytes = [s \in Streams |-> 0]
    /\ server_lock = Free
    /\ sent = <<>>
    /\ rd = 0
    /\ closed = FALSE
    /\ result = <<>>
    /\ statistic = <<>>
    /\ client_lock = Free
    /\ rpc = [w \in Workers |-> "idle"]
    /\ header = [w \in Workers |-> <<>>]
    /\ package = [w \in Workers |-> <<>>]
    /\ loaded = [w \in Workers |-> 0]
    /\ file_buffers = <<>>
    /\ curret_package = <<>>
    /\ incremented = <<>>
    /\ extended = <<>>
    /\ shorts = 0
    /\ close_pc = "idle"
    /\ close_at = 0
    /\ close_sum_bytes = 0
    /\ close_sum_packages = 0
    /\ total_time = 0
    /\ avg_bytes_per_sec = ZeroRate
    /\ avg_packages_per_sec = ZeroRate
    /\ server_pc = "send_count"
    /\ client_pc = "recv_count"
    /\ client_number_of_files = NoNumber
    /\ echo = <<>>
    /\ number = NoNumber
    /\ problem = FALSE
    /\ broken = FALSE
    /\ terminal_sent = {}

\* The number of data packages the whole transfer sends.
RECURSIVE TotalPackages(_)
TotalPackages(S) ==
    IF S = {} THEN 0
    ELSE LET s == CHOOSE x \in S : TRUE
         IN  num_packages(s) + TotalPackages(S \ {s})

\* Server and client together: up to MaxStreams files of up to MaxFileLen bytes,
\* sent in at most MaxPackages packages.
Init ==
    /\ number_of_files \in 1 .. MaxStreams
    /\ \E n \in [Streams -> 0 .. MaxFileLen] :
         file_data = [s \in Streams |-> File(s, n[s])]
    /\ package_size \in [Streams -> 1 .. MaxPackageSize]
    /\ TotalPackages(Streams) <= MaxPackages
    /\ Start

\* The server alone.  The sender threads are alike but for their stream number,
\* so the files are listed by package size and then by length.
InitSend ==
    /\ Init
    /\ \A s \in Streams \ {0} :
          \/ package_size[s - 1] < package_size[s]
          \/ /\ package_size[s - 1] = package_size[s]
             /\ Len(file_data[s - 1]) <= Len(file_data[s])

\* A file whose one package ends in the four bytes of struct.pack('!i', 0),
\* sent beside a second, short file.
EmbeddedFile == <<FileByte(0, 1)>> \o PackInt(0)

InitEmbedded ==
    /\ number_of_files = 2
    /\ \E n \in 0 .. MaxFileLen :
         file_data = (0 :> EmbeddedFile @@ 1 :> File(1, n))
    /\ \E p \in 1 .. MaxPackageSize :
         package_size = (0 :> Len(EmbeddedFile) @@ 1 :> p)
    /\ TotalPackages(Streams) <= MaxPackages
    /\ Start

\* The statistics close is called with: one tuple per finished stream.
Stats ==
    [file_path : {0}, sum_bytes : 0 .. MaxStatValue,
     num_packages : 0 .. MaxStatValue, total_time_in_sec : 0 .. MaxElapsed]

InitClose ==
    /\ number_of_files = 0
    /\ file_data = <<>>
    /\ package_size = <<>>
    /\ spc = <<>>
    /\ i = <<>>
    /\ sum_bytes = <<>>
    /\ server_lock = Free
    /\ sent = <<>>
    /\ rd = 0
    /\ closed = FALSE
    /\ result = <<>>
    /\ statistic \in UNION {[1 .. n -> Stats] : n \in 1 .. MaxStats}
    /\ client_lock = Free
    /\ rpc = <<>>
    /\ header = <<>>
    /\ package = <<>>
    /\ loaded = <<>>
    /\ file_buffers = <<>>
    /\ curret_package = <<>>
    /\ incremented = <<>>
    /\ extended = <<>>
    /\ shorts = 0
    /\ close_pc = "loop"
    /\ close_at = 0
    /\ close_sum_bytes = 0
    /\ close_sum_packages = 0
    /\ total_time = 0
    /\ avg_bytes_per_sec = ZeroRate
    /\ avg_packages_per_sec = ZeroRate
    /\ server_pc = "done"
    /\ client_pc = "done"
    /\ client_number_of_files = 0
    /\ echo = <<>>
    /\ number = 0
    /\ problem = FALSE
    /\ broken = FALSE
    /\ terminal_sent = {}

\* A whole session of server.py and client.py, from the accepted connection
\* on; the count may be 0.
InitSession ==
    /\ number_of_files \in 0 .. MaxStreams
    /\ \E n \in [Streams -> 0 .. MaxFileLen] :
         file_data = [s \in Streams |-> File(s, n[s])]
    /\ package_size \in [Streams -> 1 .. MaxPackageSize]
    /\ TotalPackages(Streams) <= MaxPackages
    /\ Connected

\* The handshake alone, for counts of one and of two digits.
InitHandshake ==
    /\ number_of_files \in 0 .. MaxCount
    /\ file_data = [s \in Streams |-> <<>>]
    /\ package_size = [s \in Streams |-> 1]
    /\ Connected

SenderNext ==
    \/ \E s \in Streams : SendHeader(s)
    \/ \E s \in Streams : SendPackage(s)
    \/ \E s \in Streams : SendEof(s)
    \/ \E s \in Streams : PutResult(s)
    \/ ServerMainExit

ReceiverNext ==
    \/ \E w \in Workers : RecvHeader(w)
    \/ \E w \in Workers : RecvHeaderEof(w)
    \/ \E w \in Workers : RecvPackage(w)
    \/ \E w \in Workers : RecvPackageError(w)
    \/ \E w \in Workers : CheckTurn(w)
    \/ \E w \in Workers : LoadCounter(w)
    \/ \E w \in Workers : StoreCounter(w)
    \/ \E w \in Workers : Extend(w)

Next == SenderNext \/ ReceiverNext

CloseNext == CloseLoop \/ CloseRates

HandshakeNext == SendCount \/ RecvCount \/ ReadyToRecv \/ RecvEcho

MainNext ==
    \/ HandshakeNext
    \/ StartSenders
    \/ StartWorkers
    \/ ServerMainExit
    \/ ClientMainExit

FailNext ==
    \/ \E s \in Streams : SendHeaderFails(s)
    \/ \E s \in Streams : SendPackageFails(s)
    \/ \E s \in Streams : SendEofFails(s)

SessionNext ==
    \/ HandshakeNext
    \/ StartSenders
    \/ StartWorkers
    \/ Next
    \/ FailNext
    \/ ClientMainExit

SendFailNext == SenderNext \/ FailNext \/ ConnectionBreaks

TestNext ==
    \/ HandshakeNext
    \/ TestStartThreads
    \/ \E s \in Streams : SendHeader(s)
    \/ \E s \in Streams : SendPackage(s)
    \/ \E s \in Streams : SendEof(s)
    \/ \E s \in Streams : PutResult(s)

Spec == Init /\ [][Next]_vars

SpecHandshake == InitHandshake /\ [][HandshakeNext]_vars

SpecSession == InitSession /\ [][SessionNext]_vars

\* The main threads of the two processes alone: the threads they start are
\* left unscheduled.
SpecMain == InitHandshake /\ [][MainNext]_vars

\* A main thread that can take a step takes one.
SpecMainFair == SpecMain /\ WF_vars(MainNext)

SpecSendFail == InitSend /\ [][SendFailNext]_vars

\* test.py, the server's side of it: the recv_file threads are started and
\* left unscheduled.
SpecTest == InitSession /\ [][TestNext]_vars

SpecSend == InitSend /\ [][SenderNext]_vars

SpecEmbedded == InitEmbedded /\ [][Next]_vars

SpecClose == InitClose /\ [][CloseNext]_vars

\* ------------------------------------------------------------------ claims
SendersDone == \A s \in Streams : spc[s] = "done"
WorkersDone == \A w \in Workers : rpc[w] = "done"

\* The payloads of the first n packages of stream s, concatenated.
RECURSIVE Payloads(_, _)
Payloads(s, n) ==
    IF n = 0 THEN <<>>
    ELSE Payloads(s, n - 1) \o Slice(file_data[s], package_size[s], n - 1)

StrictlyIncreasing(q) == \A a, b \in 1 .. Len(q) : a < b => q[a] < q[b]

NoRepeat(q) == \A a, b \in 1 .. Len(q) : a # b => q[a] # q[b]

\* C1: once every send_file thread and every recv_file worker has ended,
\* file_buffers[s] holds exactly the source bytes of stream s, for every s.
C1_RoundTrip ==
    (SendersDone /\ WorkersDone) =>
        \A s \in Streams : file_buffers[s] = file_data[s]

\* C2: the packages appended to one stream's buffer are appended in strictly
\* increasing id_package order.
C2_InOrderCommit == \A s \in Streams : StrictlyIncreasing(extended[s])

\* C3: in every state file_buffers[s] is the concatenation of the payloads
\* 0 .. curret_package[s] - 1 of stream s.
C3_StreamState ==
    \A s \in Streams :
        /\ curret_package[s] <= num_packages(s)
        /\ file_buffers[s] = Payloads(s, curret_package[s])

\* C4: curret_package[s] starts at 0, changes only by +1 and only at a commit,
\* no two commits of one stream carry the same id_package, and no increment
\* is lost.
C4_CounterSteps ==
    /\ \A s \in Streams : curret_package[s] = 0
    /\ [][\A s \in Streams :
            \/ curret_package'[s] = curret_package[s]
            \/ /\ curret_package'[s] = curret_package[s] + 1
               /\ Len(incremented'[s]) = Len(incremented[s]) + 1]_vars
    /\ [](\A s \in Streams :
            /\ NoRepeat(incremented[s])
            /\ curret_package[s] = Len(incremented[s]))

\* C8: every header a worker holds was returned whole (12 bytes, or b'' at
\* end of connection) and every package it commits has the declared length.
C8_ExactReads ==
    \A w \in Workers :
        /\ Len(header[w]) \in {0, HEADER_SIZE}
        /\ rpc[w] \in {"wait", "increment", "store", "extend"} =>
              Len(package[w]) = data_length(w)

\* C9: the transfer never comes to rest with a thread still running: either
\* every sender and worker has ended or some thread can take a step.
C9_NoHang == (SendersDone /\ WorkersDone) \/ ENABLED Next

\* The frames the bytes written so far parse into, in order, read from byte
\* p + 1 on.  A frame whose package has not been written in full is the last
\* one and is not whole.
\* The big-endian signed integer in the four bytes after byte p of the wire.
IntAt(p) ==
    (IF sent[p + 1] >= 128 THEN sent[p + 1] - 256 ELSE sent[p + 1]) * 16777216
        + sent[p + 2] * 65536 + sent[p + 3] * 256 + sent[p + 4]

RECURSIVE FramesFrom(_)
FramesFrom(p) ==
    IF p >= Len(sent) THEN <<>>
    ELSE IF Len(sent) - p < HEADER_SIZE
    THEN <<[id_stream |-> -1, data_length |-> 0, id_package |-> 0,
            package |-> <<>>, whole |-> FALSE]>>
    ELSE LET n == IntAt(p + 4)
             q == p + HEADER_SIZE
         IN  IF n < 0 \/ Len(sent) - q < n
             THEN <<[id_stream |-> IntAt(p), data_length |-> n,
                     id_package |-> IntAt(p + 8),
                     package |-> SubSeq(sent, q + 1, Len(sent)), whole |-> FALSE]>>
             ELSE <<[id_stream |-> IntAt(p), data_length |-> n,
                     id_package |-> IntAt(p + 8),
                     package |-> SubSeq(sent, q + 1, q + n), whole |-> TRUE]>>
                  \o FramesFrom(q + n)

IsTerminal(f) == f.data_length = 0 /\ f.id_package = 0

\* The places in the frame sequence F of the data frames of stream s.
DataFrames(F, s) == {k \in 1 .. Len(F) : F[k].id_stream = s /\ ~IsTerminal(F[k])}

\* How many data frames of the same stream lie before place k.
Ordinal(K, k) == Cardinality({j \in K : j < k})

\* The least n with n * c >= len.
CeilDiv(len, c) == CHOOSE n \in 0 .. len : n * c >= len /\ (n = 0 \/ (n - 1) * c < len)

LoopLeft(s) == spc[s] \in {"put", "done"}

\* C5: the terminal frame (s, 0, 0) is on the wire at most once, exactly once
\* when send_file has left its lock, only after all the data frames of s, and
\* no frame of s follows it.
C5_TerminalOnceAndLast ==
    LET F == FramesFrom(0) IN
    \A s \in Streams :
        LET T == {k \in 1 .. Len(F) : F[k].id_stream = s /\ IsTerminal(F[k])} IN
        /\ Cardinality(T) = IF LoopLeft(s) THEN 1 ELSE 0
        /\ \A t \in T :
              /\ \A k \in (t + 1) .. Len(F) : F[k].id_stream # s
              /\ {F[k].id_package : k \in {j \in 1 .. (t - 1) : F[j].id_stream = s}}
                     = 0 .. (CeilDiv(Len(file_data[s]), package_size[s]) - 1)
              /\ \A k \in 1 .. (t - 1) : F[k].id_stream = s => F[k].whole

\* Two streams have sent data; the terminal frame of one lies before a data
\* frame of the other.
C5_Witness ==
    LET F == FramesFrom(0) IN
    /\ SendersDone
    /\ \E a, b \in 1 .. Len(F) :
          /\ a < b
          /\ IsTerminal(F[a])
          /\ ~IsTerminal(F[b])
          /\ F[a].id_stream # F[b].id_stream
          /\ DataFrames(F, F[a].id_stream) # {}

\* C6: send_file emits ceil(L / c) data frames; frame k carries id_package k
\* and the bytes source[k*c : (k+1)*c]; all but the last have length c; the
\* payloads concatenated are the source; one terminal frame follows.
C6_DataFrames ==
    LET F == FramesFrom(0) IN
    \A s \in Streams :
        LET K == DataFrames(F, s)
            L == Len(file_data[s])
            c == package_size[s]
        IN  /\ Cardinality(K) <= CeilDiv(L, c)
            /\ \A k \in K :
                  LET n == Ordinal(K, k) IN
                  /\ F[k].id_package = n
                  /\ F[k].data_length = (IF (n + 1) * c <= L THEN c ELSE L - n * c)
                  /\ F[k].data_length >= 1
                  /\ F[k].whole =>
                        F[k].package = SubSeq(file_data[s], n * c + 1,
                                              n * c + F[k].data_length)
            /\ LoopLeft(s) =>
                  /\ Cardinality(K) = CeilDiv(L, c)
                  /\ \A j \in 1 .. L :
                        \E k \in K :
                            /\ Ordinal(K, k) = (j - 1) \div c
                            /\ F[k].package[((j - 1) % c) + 1] = file_data[s][j]
                  /\ \E t \in 1 .. Len(F) :
                        /\ F[t].id_stream = s /\ IsTerminal(F[t])
                        /\ \A k \in K : k < t

\* A finished stream of several packages whose last package is a short one.
C6_Witness ==
    LET F == FramesFrom(0) IN
    \E s \in Streams :
        LET K == DataFrames(F, s) IN
        /\ LoopLeft(s)
        /\ Cardinality(K) >= 2
        /\ \E k \in K : Ordinal(K, k) = Cardinality(K) - 1
                          /\ F[k].data_length < package_size[s]

\* C7: the bytes written are whole frames, each header directly followed by
\* its own package; only the frame of the thread inside the lock may still
\* lack its package.
C7_FrameAtomicity ==
    LET F == FramesFrom(0) IN
    \A k \in 1 .. Len(F) :
        LET f == F[k] IN
        /\ f.id_stream \in Streams
        /\ f.id_package \in 0 .. Len(file_data[f.id_stream])
        /\ IF f.whole
           THEN \/ IsTerminal(f)
                \/ /\ f.data_length >= 1
                   /\ f.package = SubSeq(file_data[f.id_stream],
                          f.id_package * package_size[f.id_stream] + 1,
                          f.id_package * package_size[f.id_stream] + f.data_length)
           ELSE /\ k = Len(F)
                /\ f.package = <<>>
                /\ server_lock = f.id_stream
                /\ spc[f.id_stream] = "send_package"
                /\ i[f.id_stream] = f.id_package

\* Two senders took turns: a whole data frame of one stream lies on the wire,
\* the header of another stream's frame follows without its package yet, and
\* the first sender is back at its loop, kept out by the lock.
C7_Witness ==
    LET F == FramesFrom(0) IN
    /\ Len(F) >= 2
    /\ F[1].whole /\ ~IsTerminal(F[1])
    /\ ~F[Len(F)].whole
    /\ F[Len(F)].id_stream # F[1].id_stream
    /\ spc[F[1].id_stream] = "loop"

\* Sum and maximum of a field of the statistics, computed over the whole list.
RECURSIVE SumBytes(_)
SumBytes(q) == IF q = <<>> THEN 0 ELSE Head(q).sum_bytes + SumBytes(Tail(q))

RECURSIVE SumPackages(_)
SumPackages(q) == IF q = <<>> THEN 0 ELSE Head(q).num_packages + SumPackages(Tail(q))

MaxTime(q) ==
    CHOOSE m \in {q[k].total_time_in_sec : k \in 1 .. Len(q)} :
        \A k \in 1 .. Len(q) : q[k].total_time_in_sec <= m

\* C10: when close has run over a non-empty list of statistics, its byte and
\* package totals are the sums of the per-stream totals, total_time is the
\* largest per-stream elapsed time, and both rates are 0 when total_time <= 0.
C10_Aggregation ==
    (close_pc = "done" /\ statistic # <<>>) =>
        /\ close_sum_bytes = SumBytes(statistic)
        /\ close_sum_packages = SumPackages(statistic)
        /\ total_time = MaxTime(statistic)
        /\ total_time <= 0 =>
              avg_bytes_per_sec[1] = 0 /\ avg_packages_per_sec[1] = 0
        /\ total_time > 0 =>
              /\ avg_bytes_per_sec = <<SumBytes(statistic), total_time>>
              /\ avg_packages_per_sec = <<SumPackages(statistic), total_time>>

\* close has finished over two streams, the first of which took longer.
C10_Witness ==
    /\ close_pc = "done"
    /\ Len(statistic) >= 2
    /\ statistic[1].total_time_in_sec > statistic[2].total_time_in_sec
    /\ statistic[2].total_time_in_sec > 0
    /\ close_sum_bytes >= 2
    /\ close_sum_packages >= 1

\* C11: the echo is the decimal string of the count the client parsed, and the
\* count set_up_server reads back is the count it sent.
C11_HandshakeEcho ==
    /\ echo # <<>> => echo = StrEncode(client_number_of_files)
    /\ number # NoNumber => number = number_of_files

\* C12: when the count announced is 0 no send_file and no recv_file thread
\* exists, nothing but the count is ever written to or read from the
\* connection, no buffer is made, no statistic is published, and both main
\* threads come to their end.
C12_ZeroStreams ==
    number_of_files = 0 =>
        /\ [](/\ DOMAIN spc = {}
              /\ DOMAIN rpc = {}
              /\ sent \in {<<>>, StrEncode(0)}
              /\ rd <= Len(sent)
              /\ DOMAIN file_buffers = {}
              /\ result = <<>>
              /\ statistic = <<>>)
        /\ <>(server_pc = "done" /\ client_pc = "done")

\* Both processes have ended after a handshake that announced 0.
C12_Witness ==
    /\ number_of_files = 0
    /\ client_number_of_files = 0
    /\ number = 0
    /\ server_pc = "done"
    /\ client_pc = "done"

\* A worker whose recv(12) returned some but not all of a header.
Truncated(w) == Len(header[w]) \in 1 .. (HEADER_SIZE - 1)

\* C13: a worker that got a truncated header has ended (struct.error is
\* caught, printed, and the loop is left), and the transfer does not come to
\* rest after it with a worker still polling or blocked.
C13_TruncatedHeader ==
    (\E w \in Workers : Truncated(w)) =>
        /\ \A w \in Workers : Truncated(w) => rpc[w] = "done"
        /\ WorkersDone \/ ENABLED Next

\* The statistics published so far, on the queue or collected.
Published == result \o statistic

\* C14: a send_file thread that a failed write has ended does not hold the
\* lock, has published no statistic and has not sent its terminal frame, which
\* tells it from a thread that has completed.
C14_WriteFailure ==
    \A s \in Streams :
        spc[s] = "failed" =>
            /\ server_lock # s
            /\ s \notin terminal_sent
            /\ \A k \in 1 .. Len(Published) : Published[k].file_path # s

\* One stream has failed after its first package, with the header of the
\* second already sent; another stream has completed and published.
C14_Witness ==
    \E s, u \in Streams :
        /\ spc[s] = "failed"
        /\ i[s] = 1
        /\ num_packages(s) = 2
        /\ Len(sent) >= 2 * HEADER_SIZE + package_size[s] + HEADER_SIZE
        /\ spc[u] = "done"
        /\ \E k \in 1 .. Len(Published) : Published[k].file_path = u

\* C15: a worker that has decoded a header has left its loop on it exactly
\* when the header's length is 0 and its sequence number is 0.
C15_ExitCondition ==
    \A w \in Workers :
        Len(header[w]) = HEADER_SIZE =>
            (rpc[w] = "done" <=> (data_length(w) = 0 /\ id_package(w) = 0))

\* The workers that have read a terminal frame: each left its loop on it and
\* still holds its header.
TerminalsRead ==
    {w \in Workers : /\ Len(header[w]) = HEADER_SIZE
                     /\ data_length(w) = 0
                     /\ id_package(w) = 0}

\* C16: the number of running workers is number_of_files less the number of
\* terminal frames read, and once the senders and the last worker have ended
\* every byte sent has been read and every package of every stream committed.
C16_WorkersOutliveTerminals ==
    /\ Cardinality({w \in Workers : rpc[w] # "done"})
           = number_of_files - Cardinality(TerminalsRead)
    /\ (SendersDone /\ WorkersDone) =>
           /\ rd = Len(sent)
           /\ \A s \in Streams : Len(extended[s]) = num_packages(s)

InCommit(w) == rpc[w] \in {"increment", "store", "extend"}

\* C18: no two workers are inside the commit step of the same stream at the
\* same time.
C18_CommitProtected ==
    \A w, v \in Workers :
        (w # v /\ InCommit(w) /\ InCommit(v)) => id_stream(w) # id_stream(v)

\* C19: nothing but the count is written to the connection before
\* set_up_server has sent the count and read the echo, and no recv_file
\* thread has read before the client has received the count and sent the echo.
C19_HandshakeFirst ==
    /\ Len(sent) > Len(StrEncode(number_of_files)) =>
           /\ server_pc \notin {"send_count", "recv_echo"}
           /\ number # NoNumber
    /\ (\E w \in Workers : header[w] # <<>> \/ rpc[w] \notin {"idle", "recv_header"}) =>
           /\ client_number_of_files # NoNumber
           /\ echo # <<>>

\* The places in Published of the statistics of stream s.
StatisticsOf(s) == {k \in 1 .. Len(Published) : Published[k].file_path = s}

\* C20: a send_file thread has published one statistic when it has ended and
\* none before, and never before its terminal frame was sent; once the main
\* thread has joined the threads and drained the queue, statistic holds one
\* entry per stream, with the length of the source as its byte total and the
\* number of the stream's data frames on the wire as its package total.
C20_StatisticsPublication ==
    /\ \A s \in Streams :
          /\ Cardinality(StatisticsOf(s)) = (IF spc[s] = "done" THEN 1 ELSE 0)
          /\ StatisticsOf(s) # {} => s \in terminal_sent
    /\ server_pc = "done" =>
          LET F == FramesFrom(0) IN
          /\ result = <<>>
          /\ Len(statistic) = number_of_files
          /\ \A s \in Streams :
                \E k \in 1 .. Len(statistic) :
                    /\ statistic[k].file_path = s
                    /\ statistic[k].sum_bytes = Len(file_data[s])
                    /\ statistic[k].num_packages = Cardinality(DataFrames(F, s))
                    /\ \E t \in 1 .. Len(F) :
                          F[t].id_stream = s /\ IsTerminal(F[t])

\* Two streams with data have been joined and their statistics collected, the
\* statistic of stream 1 first.
C20_Witness ==
    /\ server_pc = "done"
    /\ Len(statistic) = 2
    /\ statistic[1].file_path = 1
    /\ statistic[1].num_packages >= 1
    /\ statistic[2].sum_bytes >= 1

\* A worker that has left its loop on a connection-level error: recv(12) gave
\* b'' at end of connection, or struct.unpack or recv raised and the except
\* branch broke out of the loop.
ConnectionError(w) ==
    /\ rpc[w] = "done"
    /\ \/ Len(header[w]) # HEADER_SIZE
       \/ data_length(w) < 0

\* C21: once a worker has left its loop on a connection-level error, the
\* other workers stop too: the transfer does not come to rest with a worker
\* still polling for its turn or blocked in a read.
C21_ErrorBroadcast ==
    (\E w \in Workers : ConnectionError(w)) =>
        (WorkersDone \/ ENABLED Next)

\* C22: on the wire the frames of one stream are its data frames numbered
\* 0, 1, 2, ... in this order, without gap or repeat, then its terminal frame
\* as the last; and the lock orders nothing across streams: whenever it is
\* free every stream that has not written its terminal frame can write its
\* next frame at once, so the per-stream sequences interleave in any order.
C22_PerStreamWireOrder ==
    LET F == FramesFrom(0) IN
    /\ \A s \in Streams :
          LET P == {k \in 1 .. Len(F) : F[k].id_stream = s} IN
          \A k \in P :
              \/ /\ ~IsTerminal(F[k])
                 /\ F[k].id_package = Ordinal(P, k)
              \/ /\ IsTerminal(F[k])
                 /\ \A j \in P : j <= k
    /\ server_lock = Free =>
          \A s \in Streams :
              ~LoopLeft(s) => (ENABLED SendHeader(s)) \/ (ENABLED SendEof(s))

\* Two streams of one package each have finished; the higher-numbered stream
\* wrote its data frame first and the lower-numbered one its terminal frame
\* first.
C22_Witness ==
    LET F == FramesFrom(0) IN
    /\ SendersDone
    /\ Len(F) = 4
    /\ F[1].id_stream = 1 /\ ~IsTerminal(F[1])
    /\ F[2].id_stream = 0 /\ ~IsTerminal(F[2])
    /\ F[3].id_stream = 0 /\ IsTerminal(F[3])
    /\ F[4].id_stream = 1 /\ IsTerminal(F[4])

\* The places in the frame sequence F of the headers of stream s whose length
\* field is 0.
ZeroLength(F, s) ==
    {k \in 1 .. Len(F) : F[k].id_stream = s /\ F[k].data_length = 0}

\* C23: every header with length 0 on the wire is the terminal frame of a
\* stream whose send_file has written it: a stream has one such header once
\* its terminal frame is sent and none before, it carries sequence number 0,
\* and an empty source has no other frame.
C23_SentinelUnambiguous ==
    LET F == FramesFrom(0) IN
    /\ \A k \in 1 .. Len(F) : F[k].data_length = 0 => F[k].id_stream \in Streams
    /\ \A s \in Streams :
          LET Z == ZeroLength(F, s) IN
          /\ Cardinality(Z) = IF s \in terminal_sent THEN 1 ELSE 0
          /\ \A k \in Z : F[k].id_package = 0
          /\ Len(file_data[s]) = 0 =>
                \A k \in 1 .. Len(F) : F[k].id_stream = s => k \in Z

\* An empty source and a source of one package have both been sent: the
\* empty one's terminal frame lies between the other's data frame and
\* terminal frame.
C23_Witness ==
    LET F == FramesFrom(0) IN
    /\ SendersDone
    /\ Len(F) = 3
    /\ \E s, u \in Streams :
          /\ Len(file_data[s]) = 0
          /\ Len(file_data[u]) > 0
          /\ F[1].id_stream = u /\ F[1].data_length > 0
          /\ F[2].id_stream = s /\ F[2].data_length = 0
          /\ F[3].id_stream = u /\ F[3].data_length = 0

\* The stream id field of the header worker w holds.
FrameStream(w) == Unpack(header[w])[1]

\* The buffers and counters of the streams in S are left as they are.
Untouched(S) ==
    \A u \in S : /\ file_buffers'[u] = file_buffers[u]
                 /\ curret_package'[u] = curret_package[u]

\* C24: the counter write of a commit changes curret_package of the frame's
\* stream only and the append changes file_buffers of the frame's stream only;
\* a worker that leaves its loop (error, end of connection, terminal frame)
\* changes no buffer and no counter; and nothing else changes them.
C24_CrossStreamIsolation ==
    [][/\ \A w \in Workers :
            /\ (rpc[w] = "store" /\ rpc'[w] = "extend") =>
                  /\ Untouched(Streams \ {FrameStream(w)})
                  /\ file_buffers' = file_buffers
            /\ (rpc[w] = "extend" /\ rpc'[w] = "recv_header") =>
                  /\ Untouched(Streams \ {FrameStream(w)})
                  /\ curret_package' = curret_package
            /\ (rpc[w] # "done" /\ rpc'[w] = "done") => Untouched(Streams)
       /\ (\A w \in Workers : rpc[w] \in {"store", "extend"} => rpc'[w] = rpc[w])
             => Untouched(Streams)]_vars

\* One worker is in the middle of a commit for one stream, counter written
\* and buffer not yet, while another stream's buffer is complete and the
\* worker that filled it has left its loop.
C24_Witness ==
    \E w, x \in Workers : \E s, u \in Streams :
        /\ s # u
        /\ rpc[w] = "extend"
        /\ FrameStream(w) = s
        /\ curret_package[s] = 1
        /\ file_buffers[s] = <<>>
        /\ Len(file_data[u]) > 0
        /\ file_buffers[u] = file_data[u]
        /\ rpc[x] = "done"

============================================================================
